---- MODULE Spec2Model ----
(***************************************************************************)
(* Model of the Intune ODC log collector (src/main.py): the GUI thread     *)
(* (start_collection, cancel_collection), the worker thread                *)
(* (_collection_thread, _run_native_collection and the four executors),    *)
(* the manifest document and its lookups, the staging directory, the       *)
(* temporary command scripts and the archives.                             *)
(*                                                                         *)
(* Text (paths, patterns, attribute values) is a sequence of tokens: the   *)
(* characters the code inspects ('*', '"', '\', a "${T}" variable          *)
(* reference) are tokens of their own, every other token is an opaque      *)
(* run of ordinary characters.                                             *)
(***************************************************************************)
EXTENDS Integers, Sequences, FiniteSets, TLC

\* ------------------------------------------------------------------ bounds
MaxPackages == 2      \* packages in a manifest
MaxFaults == 1        \* environment failures (copy, export, launch, archive write, ...) in one behaviour
MaxRuns == 2          \* collections started in one behaviour of SpecRuns

\* ------------------------------------------------------- text and the host
HOST == <<"HOST">>                  \* os.environ['COMPUTERNAME']
NoAttr == <<"<absent>">>            \* an XML attribute that is not present
General == <<"General">>
Get(attr, default) == IF attr = NoAttr THEN default ELSE attr

\* str.replace(ch, ''): drop every occurrence of the token ch.
Remove(s, ch) == SelectSeq(s, LAMBDA c : c # ch)

\* os.path.expandvars: a reference to a defined variable is replaced by its
\* value, a reference to an undefined one is left as it is.
EnvDefined == {"${T}"}
EnvValue(tok) == IF tok = "${T}" THEN <<"a">> ELSE <<tok>>
RECURSIVE ExpandVars(_)
ExpandVars(s) ==
    IF s = <<>> THEN <<>>
    ELSE (IF Head(s) \in EnvDefined THEN EnvValue(Head(s)) ELSE <<Head(s)>>)
         \o ExpandVars(Tail(s))

\* The directory the patterns are resolved in, in os.listdir order.
HostListing ==
    << [name |-> <<"a", "a">>, kind |-> "file"],
       [name |-> <<"a", "b">>, kind |-> "file"],
       [name |-> <<"a", "d">>, kind |-> "dir"],
       [name |-> <<"a", "*">>, kind |-> "file"],
       [name |-> <<"b", "a">>, kind |-> "file"],
       [name |-> <<"b", "b">>, kind |-> "file"],
       [name |-> <<"b", "c">>, kind |-> "file"] >>

Exists(p) == \E k \in 1..Len(HostListing) : HostListing[k].name = p
IsFile(p) == \E k \in 1..Len(HostListing) :
                 HostListing[k].name = p /\ HostListing[k].kind = "file"
HasStar(p) == \E k \in 1..Len(p) : p[k] = "*"

\* fnmatch: '*' matches any run of tokens, every other token matches itself.
RECURSIVE FnMatch(_, _)
FnMatch(pat, name) ==
    IF pat = <<>> THEN name = <<>>
    ELSE IF Head(pat) = "*"
         THEN FnMatch(Tail(pat), name)
              \/ (name # <<>> /\ FnMatch(pat, Tail(name)))
         ELSE name # <<>> /\ Head(name) = Head(pat)
              /\ FnMatch(Tail(pat), Tail(name))

\* glob.glob(pattern): the entries of the directory that match, in listing order.
RECURSIVE GlobFrom(_, _)
GlobFrom(pat, k) ==
    IF k > Len(HostListing) THEN <<>>
    ELSE (IF FnMatch(pat, HostListing[k].name) THEN <<HostListing[k].name>> ELSE <<>>)
         \o GlobFrom(pat, k + 1)
Glob(pat) == GlobFrom(pat, 1)

\* os.path.join: empty components vanish.
Join(parts) == SelectSeq(parts, LAMBDA c : c # <<>>)
\* os.makedirs(d): d and every ancestor of it below the staging root.
Ancestors(d) == {SubSeq(d, 1, k) : k \in 1..Len(d)}

\* str.replace(old, ''), old a two-token text: drop every occurrence of it.
RECURSIVE RemovePair(_, _, _)
RemovePair(s, c1, c2) ==
    IF Len(s) < 2 THEN s
    ELSE IF s[1] = c1 /\ s[2] = c2 THEN RemovePair(SubSeq(s, 3, Len(s)), c1, c2)
         ELSE <<s[1]>> \o RemovePair(Tail(s), c1, c2)
\* str.replace(old, new) for single tokens.
Replace(s, old, new) == [k \in 1..Len(s) |-> IF s[k] = old THEN new ELSE s[k]]
\* The letters str.upper() changes in the texts of a manifest, and what it
\* makes of them.
Lower == << "a", "b", "c", "d", "e", "f", "g", "h", "i", "j", "k", "l", "m",
            "n", "o", "p", "q", "r", "s", "t", "u", "v", "w", "x", "y", "z" >>
Caps == << "A", "B", "C", "D", "E", "F", "G", "H", "I", "J", "K", "L", "M",
           "N", "O", "P", "Q", "R", "S", "T", "U", "V", "W", "X", "Y", "Z" >>
UpperChar(c) ==
    IF \E k \in 1..Len(Lower) : Lower[k] = c
    THEN Caps[CHOOSE k \in 1..Len(Lower) : Lower[k] = c]
    ELSE c
\* str.upper() of a string, character by character.
RECURSIVE UpperStr(_)
UpperStr(str) ==
    IF Len(str) = 0 THEN ""
    ELSE UpperChar(SubSeq(str, 1, 1)) \o UpperStr(SubSeq(str, 2, Len(str)))
\* str.upper() of a command type (a text of tokens).
Upper(t) == [k \in 1..Len(t) |-> UpperStr(t[k])]

\* --------------------------------------------------------------- manifests
\* What find_child and the executors' element lookups yield for a package:
\* per action group, whether the group element is there, and its action
\* elements in document order.
Group(es) == [present |-> TRUE, elems |-> es]
NoGroup == [present |-> FALSE, elems |-> <<>>]
FileEl(text, team) == [text |-> text, team |-> team, out |-> NoAttr, type |-> NoAttr]
RegEl(text, team, out) == [text |-> text, team |-> team, out |-> out, type |-> NoAttr]
CmdEl(type, text, team, out) == [text |-> text, team |-> team, out |-> out, type |-> type]

\* Every action group present: a wildcard that also names a file, a wildcard
\* that names none, two registry keys, an event log, a PS command, a command
\* marked "NA" and a command of type "Cmd" of more than 50 characters.
PkgFull ==
    [id |-> <<"P1">>,
     Files |-> Group(<< FileEl(<<"a", "*">>, NoAttr), FileEl(<<"b", "*">>, <<"T1">>) >>),
     Registries |-> Group(<< RegEl(<<"HKLM", "\\", "K", "\\", "*">>, NoAttr, NoAttr),
                             RegEl(<<"HKCU", "\\", "S">>, <<"T1">>, <<"sw">>) >>),
     EventLogs |-> Group(<< FileEl(<<"${T}", "b">>, <<>>) >>),
     Commands |-> Group(<< CmdEl(NoAttr, <<"dsregcmd">>, NoAttr, <<"dsreg">>),
                           CmdEl(<<"PS">>, <<"gpupdate">>, NoAttr, <<"NA">>),
                           CmdEl(<<"Cmd">>, <<"ipconfig /all >nul & ", "systeminfo | findstr /B /C:OS /C:Domain">>,
                                 <<>>, NoAttr) >>)]
\* Paths that are missing, a directory, quoted or empty; a command of an
\* unknown type and one without text; no registry and no event-log group.
PkgOdd ==
    [id |-> <<"P2">>,
     Files |-> Group(<< FileEl(<<"z">>, NoAttr), FileEl(<<"a", "d">>, NoAttr),
                        FileEl(<<"\"", "a", "a", "\"">>, NoAttr), FileEl(<<>>, NoAttr) >>),
     Registries |-> NoGroup,
     EventLogs |-> NoGroup,
     Commands |-> Group(<< CmdEl(<<"VBS">>, <<"x">>, NoAttr, NoAttr),
                           CmdEl(<<"PS">>, <<>>, NoAttr, NoAttr),
                           CmdEl(<<"pS">>, <<"whoami">>, <<"T1">>, NoAttr) >>)]
\* A package without any action group.
PkgEmpty ==
    [id |-> <<"P3">>, Files |-> NoGroup, Registries |-> NoGroup,
     EventLogs |-> NoGroup, Commands |-> NoGroup]
PackageShapes == {PkgFull, PkgOdd, PkgEmpty}
\* Every action group present, a single File element in them.
PkgLite ==
    [id |-> <<"P4">>,
     Files |-> Group(<< FileEl(<<"a", "a">>, NoAttr) >>),
     Registries |-> Group(<<>>),
     EventLogs |-> Group(<<>>),
     Commands |-> Group(<<>>)]

RECURSIVE SeqsUpTo(_, _)
SeqsUpTo(S, n) ==
    IF n = 0 THEN {<<>>}
    ELSE SeqsUpTo(S, n - 1)
         \cup {Append(q, x) : q \in {r \in SeqsUpTo(S, n - 1) : Len(r) = n - 1}, x \in S}
\* The package lists parse_xml can return: a list of several packages
\* begins with the package that has every action group.
Manifests ==
    {q \in SeqsUpTo(PackageShapes, MaxPackages) : Len(q) <= 1 \/ q[1] = PkgFull}

\* The package lists of a behaviour with several collections.
RerunManifests == {<<>>, <<PkgLite>>}
PoolOf(p) == IF p = "any" THEN Manifests ELSE RerunManifests

GroupOf(pkg, g) ==
    CASE g = "Files" -> pkg.Files
      [] g = "Registries" -> pkg.Registries
      [] g = "EventLogs" -> pkg.EventLogs
      [] g = "Commands" -> pkg.Commands
GroupDir(g) == IF g = "Registries" THEN <<"RegistryKeys">> ELSE <<g>>

\* ------------------------------------------------------------ XML documents
\* An element: its local name (a text), the URI of its namespace ("" for
\* none), the attributes the code reads, its text and its children in
\* document order.
Node(name, kids) ==
    [name |-> name, uri |-> "", id |-> NoAttr, team |-> NoAttr, out |-> NoAttr,
     type |-> NoAttr, text |-> <<>>, kids |-> kids]
\* Element.tag: '{uri}name' for an element in a namespace, 'name' otherwise.
Tag(e) == IF e.uri = "" THEN e.name ELSE <<"{", e.uri, "}">> \o e.name
\* "if '}' in tag: ns_uri = tag.split('}')[0].strip('{')", <<>> for no namespace.
NsUri(tag) ==
    IF \E k \in 1..Len(tag) : tag[k] = "}"
    THEN LET first == CHOOSE k \in 1..Len(tag) :
                          tag[k] = "}" /\ \A l \in 1..(k - 1) : tag[l] # "}"
         IN  Remove(SubSeq(tag, 1, first - 1), "{")
    ELSE <<>>
\* The tag 'ns:name' stands for under {'ns': uri}, and f'{{{uri}}}name'.
Clark(uri, name) == <<"{">> \o uri \o <<"}", name>>
\* str.endswith(name) of a tag.
EndsWith(tag, name) == tag # <<>> /\ tag[Len(tag)] = name

\* Element.iter(): the element and its descendants in document order.
RECURSIVE Iter(_)
Iter(e) ==
    LET Upto[k \in 0..Len(e.kids)] ==
            IF k = 0 THEN <<>> ELSE Upto[k - 1] \o Iter(e.kids[k])
    IN  <<e>> \o Upto[Len(e.kids)]
\* findall('.//tag'): the descendants with that tag.
Descendants(e) == Tail(Iter(e))
WithTag(es, tag) == SelectSeq(es, LAMBDA x : Tag(x) = tag)

\* A document: whether ET.parse accepts it, and its root element.
Doc(root) == [wellformed |-> TRUE, root |-> root]
Malformed == [wellformed |-> FALSE, root |-> Node(<<"#text">>, <<>>)]
NoFile == [wellformed |-> FALSE, root |-> Node(<<"#absent">>, <<>>)]

\* A namespace detection that never finds one.
NsMap_Never(pkgs) == <<>>
\* ns_uri of _run_native_collection: the namespace of the first package.
NsMap(pkgs) == IF pkgs # <<>> THEN NsUri(Tag(pkgs[1])) ELSE <<>>

\* parse_xml's three lookups: './/ns:Package' when the root has a namespace,
\* then './/Package', then every element whose tag ends with 'Package'.
FindPackages(root) ==
    LET ns == NsUri(Tag(root))
        tier1 == IF ns # <<>> THEN WithTag(Descendants(root), Clark(ns, "Package"))
                 ELSE <<>>
        tier2 == IF tier1 = <<>> THEN WithTag(Descendants(root), <<"Package">>)
                 ELSE tier1
    IN  IF tier2 = <<>>
        THEN SelectSeq(Iter(root), LAMBDA x : EndsWith(Tag(x), "Package"))
        ELSE tier2

\* find_child(parent, tag_name): <<>> for None, <<child>> otherwise.
find_child(parent, tag_name, ns) ==
    LET byNs == IF ns # <<>> THEN WithTag(parent.kids, Clark(ns, tag_name)) ELSE <<>>
        plain == WithTag(parent.kids, <<tag_name>>)
        ending == SelectSeq(parent.kids, LAMBDA x : EndsWith(Tag(x), tag_name))
    IN  IF byNs # <<>> THEN <<byNs[1]>>
        ELSE IF plain # <<>> THEN <<plain[1]>>
        ELSE IF ending # <<>> THEN <<ending[1]>>
        ELSE <<>>

\* The element lookup at the head of an executor: iter() by the full tag,
\* and the direct children when iter() finds nothing.
ActionTag(g) ==
    CASE g = "Files" -> "File"
      [] g = "Registries" -> "Registry"
      [] g = "EventLogs" -> "EventLog"
      [] g = "Commands" -> "Command"
\* A lookup that takes every child of the group element for an action.
ActionElems_AnyChild(group, g, ns) == group.kids
ActionElems(group, g, ns) ==
    LET tag == IF ns # <<>> THEN Clark(ns, ActionTag(g)) ELSE <<ActionTag(g)>>
        all == WithTag(Iter(group), tag)
    IN  IF all = <<>> THEN WithTag(group.kids, tag) ELSE all

\* What the package loop finds for group g of a package element.
GroupFound(pkg, g, ns) ==
    LET child == find_child(pkg, g, ns)
    IN  IF child = <<>> THEN NoGroup
        ELSE LET es == ActionElems(child[1], g, ns)
             IN  Group([k \in 1..Len(es) |->
                          [text |-> es[k].text, team |-> es[k].team,
                           out |-> es[k].out, type |-> es[k].type]])

\* A parser that takes a document without packages for a broken one.
WellFormed_NeedsPackage(doc) == doc.wellformed /\ FindPackages(doc.root) # <<>>
\* A parser that accepts every document.
WellFormed_Anything(doc) == TRUE
\* ET.parse(xml_path) returns a tree.
WellFormed(doc) == doc.wellformed

\* The package list of a document, with what the loop finds in each package.
ManifestOf(doc) ==
    LET pkgs == FindPackages(doc.root)
        ns == NsMap(pkgs)
    IN  [k \in 1..Len(pkgs) |->
           [id |-> Get(pkgs[k].id, <<"Unknown">>),
            Files |-> GroupFound(pkgs[k], "Files", ns),
            Registries |-> GroupFound(pkgs[k], "Registries", ns),
            EventLogs |-> GroupFound(pkgs[k], "EventLogs", ns),
            Commands |-> GroupFound(pkgs[k], "Commands", ns)]]

\* The same document with a default namespace declared on its root: every
\* element is in that namespace.
RECURSIVE Qualify(_, _)
Qualify(e, uri) ==
    [e EXCEPT !.uri = uri, !.kids = [k \in 1..Len(e.kids) |-> Qualify(e.kids[k], uri)]]
InNamespace(doc, uri) == [doc EXCEPT !.root = Qualify(doc.root, uri)]

\* The document of the usual layout for a package list: a root, its Package
\* children, in each the group elements that are present, in each group its
\* action elements.
ActionNode(g, el) ==
    [Node(<<ActionTag(g)>>, <<>>) EXCEPT !.text = el.text, !.team = el.team,
                                         !.out = el.out, !.type = el.type]
GroupNodes(pkg, g) ==
    IF GroupOf(pkg, g).present
    THEN << Node(<<g>>, [k \in 1..Len(GroupOf(pkg, g).elems) |->
                           ActionNode(g, GroupOf(pkg, g).elems[k])]) >>
    ELSE <<>>
PackageNode(pkg) ==
    [Node(<<"Package">>, GroupNodes(pkg, "Files") \o GroupNodes(pkg, "Registries")
                         \o GroupNodes(pkg, "EventLogs") \o GroupNodes(pkg, "Commands"))
        EXCEPT !.id = pkg.id]
XmlOf(m) == Doc(Node(<<"Collection">>, [k \in 1..Len(m) |-> PackageNode(m[k])]))

\* Documents of other layouts: packages below an intermediate element, with a
\* foreign element beside them and a File below a folder element; a root that
\* is itself the only element whose tag ends with 'Package'; packages and
\* groups that are found by the ending of their tags; a root without packages.
DocNested ==
    Doc(Node(<<"Collection">>,
             << Node(<<"Note">>, <<>>),
                Node(<<"Packages">>,
                     << [Node(<<"Package">>,
                              << Node(<<"Files">>,
                                      << ActionNode("Files", FileEl(<<"a", "a">>, NoAttr)),
                                         Node(<<"Folder">>,
                                              << ActionNode("Files", FileEl(<<"b", "a">>, <<"T1">>)) >>) >>),
                                 Node(<<"Commands">>,
                                      << ActionNode("Commands",
                                                    CmdEl(<<"PS">>, <<"whoami">>, NoAttr, NoAttr)) >>) >>)
                           EXCEPT !.id = <<"N1">>],
                        Node(<<"Package">>,
                             << Node(<<"Registries">>,
                                     << ActionNode("Registries",
                                                   RegEl(<<"HKLM", "\\", "K">>, NoAttr, NoAttr)) >>) >>) >>) >>))
DocRootPackage ==
    Doc([Node(<<"Package">>,
              << Node(<<"EventLogs">>,
                      << ActionNode("EventLogs", FileEl(<<"a", "b">>, NoAttr)) >>) >>)
           EXCEPT !.id = <<"R1">>])
DocByEnding ==
    Doc(Node(<<"Collection">>,
             << [Node(<<"Sub", "Package">>,
                      << Node(<<"Old", "Files">>,
                              << ActionNode("Files", FileEl(<<"a", "b">>, NoAttr)) >>),
                         Node(<<"Files">>,
                              << ActionNode("Files", FileEl(<<"b", "b">>, NoAttr)) >>) >>)
                   EXCEPT !.id = <<"E1">>],
                [Node(<<"Package", "Set">>, <<>>) EXCEPT !.id = <<"E2">>],
                [Node(<<"My", "Package">>,
                      << Node(<<"My", "Commands">>,
                              << ActionNode("Commands",
                                            CmdEl(<<"cmd">>, <<"ipconfig">>, NoAttr, NoAttr)) >>) >>)
                   EXCEPT !.id = <<"E3">>] >>))
DocNoPackage == Doc(Node(<<"Collection">>, << Node(<<"Note">>, <<>>) >>))
\* Packages without any action element: one whose groups are empty or hold
\* a foreign element only, one without groups.
DocHollow ==
    Doc(Node(<<"Collection">>,
             << [Node(<<"Package">>,
                      << Node(<<"Files">>, << Node(<<"Note">>, <<>>) >>),
                         Node(<<"Registries">>, <<>>),
                         Node(<<"Commands">>, <<>>) >>)
                   EXCEPT !.id = <<"H1">>],
                [Node(<<"Package">>, <<>>) EXCEPT !.id = <<"H2">>] >>))
Layouts ==
    {XmlOf(<<PkgFull>>), DocNested, DocRootPackage, DocByEnding, DocNoPackage, DocHollow}
URI == "u"
XmlDocs == Layouts \cup {InNamespace(d, URI) : d \in Layouts} \cup {Malformed}

\* The documents the download can bring.
DocsOf(p) ==
    CASE p = "xml" -> XmlDocs
      [] OTHER -> {XmlOf(m) : m \in PoolOf(p)} \cup {Malformed}

\* --------------------------------------------------------------------- state
VARIABLES
    is_running,     \* self.is_running, the cancellation flag
    collect_btn,    \* state of the Start button
    cancel_btn,     \* state of the Cancel button
    open_btn,       \* state of the Open Folder button
    status,         \* status_var
    progress,       \* progress_var
    log,            \* output_text: the lines written by _log, as events
    dialog,         \* the confirmation dialog the GUI thread is waiting in
    notified,       \* the message box the worker has shown at the end of a run
    mode,           \* collection_mode as read by the worker
    pc,             \* where the worker thread is
    packages,       \* the list parse_xml returned
    i,              \* index of the package in the loop (1-based)
    j,              \* index of the element in the executor's loop (0: executor not entered)
    call,           \* where the worker is in the body of element j: at the call-th
                    \* regular match (resolving the path, in shutil.copy2), or in
                    \* subprocess.run (1); 0 at the head of the loop
    count,          \* files_collected / reg_collected / evt_collected / cmd_collected
    staging,        \* result_dir: whether it exists, its files and directories
    tempFiles,      \* odc_cmd_<n>.<ext> scripts present in TEMP
    archives,       \* the zip files in log_dir
    now,            \* the UTC minute the clock shows
    terminal,       \* how the run of the worker ended
    visited,        \* the elements whose loop body has been entered in this run
    launched,       \* the processes subprocess.run has started in this run, with how they ended
    cancelAt,       \* where the worker was when the flag was last cleared
    faults,         \* environment failures so far
    raised,         \* the exception the element processed last has raised, if any
    pool,           \* which documents the manifest source can supply
    xml,            \* Intune.xml in log_dir: the document parse_xml reads
    budget,         \* collections that can still be started
    leftover,       \* whether the staging directory held files when this run cleared it
    said,           \* where the worker is in _update_status: "no" outside of it, "set"
                    \* after status_var.set, "logged" after _log
    tail            \* the worker of the collection before has the last statement of
                    \* its "finally" still to run

vars == << is_running, collect_btn, cancel_btn, open_btn, status, progress, log,
           dialog, notified, mode, pc, packages, i, j, call, count, staging, tempFiles,
           archives, now, terminal, visited, launched, cancelAt, faults, raised, pool, xml, budget, leftover, said, tail >>

gui == << collect_btn, cancel_btn, open_btn, dialog >>
disk == << staging, tempFiles, archives, now >>
loopvars == << packages, i, j, call, count >>

Ev(kind, g, it, arg, n) ==
    [ev |-> kind, pkg |-> i, grp |-> g, item |-> it, arg |-> arg, n |-> n]
StatusEv(msg) ==
    [ev |-> "status", pkg |-> 0, grp |-> "", item |-> 0, arg |-> msg, n |-> 0]
NotCancelled == [pc |-> "none", i |-> 0, j |-> 0, call |-> 0]
\* A staging directory that is made without being removed first.
EmptyDir_Kept == [staging EXCEPT !.exists = TRUE]
\* "shutil.rmtree(result_dir)" and "os.makedirs(result_dir)".
EmptyDir == [exists |-> TRUE, files |-> {}, dirs |-> {}]
NoDir == [exists |-> FALSE, files |-> {}, dirs |-> {}]

Init ==
    /\ is_running = FALSE
    /\ collect_btn = "normal"
    /\ cancel_btn = "disabled"
    /\ open_btn = "disabled"
    /\ status = <<"Ready to start">>
    /\ progress = 0
    /\ log = <<>>
    /\ dialog = "none"
    /\ notified = "none"
    /\ mode = "none"
    /\ pc = "idle"
    /\ packages = <<>>
    /\ i = 0
    /\ j = 0
    /\ call = 0
    /\ count = 0
    /\ staging = NoDir
    /\ tempFiles = {}
    /\ archives = {}
    /\ now = 0
    /\ terminal = "none"
    /\ visited = {}
    /\ launched = {}
    /\ cancelAt = NotCancelled
    /\ faults = 0
    /\ raised = "none"
    /\ pool = "any"
    /\ xml = NoFile
    /\ budget = 1
    /\ leftover = FALSE
    /\ said = "no"
    /\ tail = FALSE

\* ---------------------------------------------------------------- GUI thread
\* The command of the Start button runs only while the button is not disabled.
StartEnabled == collect_btn = "normal"

\* start_collection, confirmed by an administrator (a refusal changes nothing).
\* The button is enabled again by the second statement of the worker's
\* "finally": a collection started then finds the worker before with one
\* statement to run.
start_collection ==
    /\ StartEnabled
    /\ dialog = "none"
    /\ budget > 0
    /\ is_running' = TRUE
    /\ collect_btn' = "disabled"
    /\ cancel_btn' = "normal"
    /\ open_btn' = "disabled"
    /\ progress' = 0
    /\ log' = <<>>
    /\ pc' = "begin"
    /\ said' = "no"
    /\ tail' = (tail \/ pc # "idle")
    /\ budget' = budget - 1
    /\ leftover' = FALSE
    /\ terminal' = "none"
    /\ visited' = {}
    /\ launched' = {}
    /\ cancelAt' = NotCancelled
    /\ notified' = "none"
    /\ raised' = "none"
    /\ UNCHANGED << status, dialog, mode, loopvars, disk, faults, pool, xml >>

\* cancel_collection up to the confirmation dialog.
cancel_collection ==
    /\ cancel_btn = "normal"
    /\ dialog = "none"
    /\ is_running
    /\ dialog' = "cancel"
    /\ UNCHANGED << is_running, collect_btn, cancel_btn, open_btn, status, progress,
                    log, notified, mode, pc, loopvars, disk, terminal, visited, launched,
                    cancelAt, faults, raised, pool, said, tail, xml, budget, leftover >>

\* cancel_collection from the answer to the dialog on, statement by
\* statement: the flag is cleared, then _update_status sets the status, then
\* it writes the line.
cancel_answer ==
    /\ \/ /\ dialog = "cancel"
          /\ \E result \in BOOLEAN :
               IF result
               THEN /\ is_running' = FALSE
                    /\ cancelAt' = [pc |-> pc, i |-> i, j |-> j, call |-> call]
                    /\ dialog' = "cancel_status"
               ELSE /\ dialog' = "none"
                    /\ UNCHANGED << is_running, cancelAt >>
          /\ UNCHANGED << status, log >>
       \/ /\ dialog = "cancel_status"
          /\ status' = <<"Collection cancelled">>
          /\ dialog' = "cancel_log"
          /\ UNCHANGED << is_running, log, cancelAt >>
       \/ /\ dialog = "cancel_log"
          /\ log' = Append(log, StatusEv(<<"Collection cancelled">>))
          /\ dialog' = "none"
          /\ UNCHANGED << is_running, status, cancelAt >>
    /\ UNCHANGED << collect_btn, cancel_btn, open_btn, progress, notified, mode, pc,
                    loopvars, disk, terminal, visited, launched, faults, raised, pool,
                    said, tail, xml, budget, leftover >>

\* ------------------------------------------------------------- worker thread
\* What a statement of _update_status leaves alone besides the status and
\* the log.
beside == << is_running, collect_btn, cancel_btn, open_btn, progress, dialog, notified,
             mode, pc, packages, i, j, call, count, staging, tempFiles, archives, now,
             terminal, visited, launched, cancelAt, faults, raised, pool, xml, budget,
             leftover, tail >>
\* "self.status_var.set(message)"
SetStatus(msg) ==
    /\ said = "no"
    /\ status' = msg
    /\ said' = "set"
    /\ UNCHANGED << log, beside >>
\* "self._log(message)"
LogStatus(msg) ==
    /\ said = "set"
    /\ log' = Append(log, StatusEv(msg))
    /\ said' = "logged"
    /\ UNCHANGED << status, beside >>
\* _update_status(msg) in the worker thread: two statements, two steps.
update_status(msg) == SetStatus(msg) \/ LogStatus(msg)
\* _update_status has returned and the worker goes on.
Said == said = "logged" /\ said' = "no"

\* An exception leaves _run_native_collection or run_microsoft_tool.
Raise == /\ terminal' = "Failed"
         /\ pc' = "except"

\* _collection_thread up to the choice of the mode.
collection_thread ==
    /\ pc = "begin"
    /\ \/ update_status(<<"Creating directories...">>)
       \/ /\ Said
          /\ \E m \in {"native", "microsoft"} :
               /\ mode' = m
               /\ pc' = m
          /\ UNCHANGED << status, log >>
    /\ UNCHANGED << is_running, gui, progress, notified, loopvars, disk, terminal,
                    visited, launched, cancelAt, faults, raised, pool, tail, xml, budget, leftover >>

\* The archive the Microsoft script writes into log_dir: it is named by the
\* script, not after a minute, and its entries are the script's own.
ScriptZip == [minute |-> -1, entries |-> {}, complete |-> TRUE]

\* run_microsoft_tool, from one call it waits in to the next: the download of
\* the script, the download of the manifest (it is written to Intune.xml in
\* log_dir), the run of the script (at most 900 s) and the end.  The function
\* never reads the flag.
run_microsoft_tool ==
    /\ \/ /\ pc = "microsoft"
          /\ \/ update_status(<<"Downloading Microsoft Intune ODC script...">>)
             \/ /\ Said
                /\ pc' = "ms_ps1"
                /\ UNCHANGED << status, log >>
          /\ UNCHANGED << progress, terminal, archives, xml >>
       \/ /\ pc = "ms_ps1"
          /\ \E ok \in BOOLEAN :
               IF ok THEN /\ progress' = 20
                          /\ pc' = "ms_xml"
                          /\ UNCHANGED terminal
               ELSE Raise /\ UNCHANGED progress
          /\ UNCHANGED << status, log, said, archives, xml >>
       \/ /\ pc = "ms_xml"
          /\ \E ok \in BOOLEAN :
               IF ok THEN /\ xml' \in DocsOf(pool)
                          /\ progress' = 30
                          /\ pc' = "ms_say"
                          /\ UNCHANGED terminal
               ELSE Raise /\ UNCHANGED << progress, xml >>
          /\ UNCHANGED << status, log, said, archives >>
       \/ /\ pc = "ms_say"
          /\ \/ update_status(<<"Running Microsoft Intune ODC collection script...">>)
             \/ /\ Said
                /\ pc' = "ms_run"
                /\ UNCHANGED << status, log >>
          /\ UNCHANGED << progress, terminal, archives, xml >>
       \/ /\ pc = "ms_run"
          /\ \E r \in {"returned", "timeout", "launch", "raised"}, zip \in BOOLEAN :
               /\ r = "launch" => ~zip
               /\ archives' = IF zip THEN archives \cup {ScriptZip} ELSE archives
               /\ CASE r = "returned" ->
                         /\ progress' = 90
                         /\ pc' = "ms_done"
                         /\ UNCHANGED terminal
                    [] r = "timeout" ->
                         IF archives' # {}
                         THEN /\ progress' = 100
                              /\ terminal' = "Success"
                              /\ pc' = "notify"
                         ELSE Raise /\ UNCHANGED progress
                    [] r \in {"launch", "raised"} ->
                         Raise /\ UNCHANGED progress
          /\ UNCHANGED << status, log, said, xml >>
       \/ /\ pc = "ms_done"
          /\ progress' = 100
          /\ pc' = "ms_complete"
          /\ UNCHANGED << status, log, said, terminal, archives, xml >>
       \/ /\ pc = "ms_complete"
          /\ \/ update_status(<<"Microsoft tool collection complete!">>)
             \/ /\ Said
                /\ terminal' = "Success"
                /\ pc' = "notify"
                /\ UNCHANGED << status, log >>
          /\ UNCHANGED << progress, archives, xml >>
    /\ UNCHANGED << is_running, gui, notified, mode, loopvars, staging, tempFiles, now,
                    visited, launched, cancelAt, faults, raised, pool, tail, budget, leftover >>

\* _run_native_collection: the staging directory is removed and made anew.
run_native_collection ==
    /\ pc = "native"
    /\ leftover' = (staging.files # {})
    /\ staging' = EmptyDir
    /\ progress' = 10
    /\ pc' = "download"
    /\ UNCHANGED << is_running, gui, status, log, notified, mode, loopvars, tempFiles,
                    archives, now, terminal, visited, launched, cancelAt, faults, raised, pool, said, tail, xml, budget >>

\* download_xml and the progress its caller sets when it returns.  With the
\* cache in use and a cached copy younger than 7 days the copy is taken and
\* no status line is written.  Otherwise the status line is written and the
\* worker waits in urlretrieve: the file arrives, or the download fails and a
\* cached copy of any age stands in, or it fails for good.
download_xml ==
    /\ \/ /\ pc = "download"
          /\ \/ /\ said = "no"
                /\ xml' \in DocsOf(pool)
                /\ progress' = 25
                /\ pc' = "parse"
                /\ UNCHANGED << status, log, said >>
             \/ /\ update_status(<<"Downloading Intune.XML...">>)
                /\ UNCHANGED << xml, progress >>
             \/ /\ Said
                /\ pc' = "urlretrieve"
                /\ UNCHANGED << status, log, xml, progress >>
          /\ UNCHANGED terminal
       \/ /\ pc = "urlretrieve"
          /\ \E r \in {"downloaded", "fallback", "failed"} :
               IF r = "failed" THEN Raise /\ UNCHANGED << progress, xml >>
               ELSE /\ xml' \in DocsOf(pool)
                    /\ progress' = 25
                    /\ pc' = "parse"
                    /\ UNCHANGED terminal
          /\ UNCHANGED << status, log, said >>
    /\ UNCHANGED << is_running, gui, notified, mode, loopvars, disk, visited, launched,
                    cancelAt, faults, raised, pool, tail, budget, leftover >>

\* parse_xml and the start of the package loop: the status line; then a
\* document that is not well-formed raises, any other yields its package list.
parse_xml ==
    /\ pc = "parse"
    /\ \/ /\ update_status(<<"Parsing Intune.XML...">>)
          /\ UNCHANGED << progress, loopvars >>
       \/ /\ Said
          /\ IF WellFormed(xml)
             THEN /\ packages' = ManifestOf(xml)
                  /\ progress' = 30
                  /\ i' = 1
                  /\ j' = 0
                  /\ count' = 0
                  /\ pc' = "pkg"
                  /\ UNCHANGED << terminal, call >>
             ELSE /\ Raise
                  /\ UNCHANGED << progress, loopvars >>
          /\ UNCHANGED << status, log >>
    /\ UNCHANGED << is_running, gui, notified, mode, disk, visited, launched, cancelAt,
                    faults, raised, pool, tail, xml, budget, leftover >>

\* A package loop that does not look at the flag.
LoopCancelled_Blind == FALSE
\* "if not self.is_running: return" at the head of the package loop.
LoopCancelled == ~is_running

\* The head of the package loop: the loop is over, or the flag is read and
\* the run is cancelled, or the next package starts with its status line.
package_loop ==
    /\ \/ /\ pc = "pkg"
          /\ IF i > Len(packages)
             THEN /\ pc' = "zip"
                  /\ UNCHANGED terminal
             ELSE IF LoopCancelled
                  THEN /\ terminal' = "Cancelled"
                       /\ pc' = "notify"
                  ELSE /\ pc' = "pkg_say"
                       /\ UNCHANGED terminal
          /\ UNCHANGED << status, log, said, j >>
       \/ /\ pc = "pkg_say"
          /\ \/ /\ update_status(<<"Processing package: ">> \o packages[i].id)
                /\ UNCHANGED j
             \/ /\ Said
                /\ pc' = "Files"
                /\ j' = 0
                /\ UNCHANGED << status, log >>
          /\ UNCHANGED terminal
    /\ UNCHANGED << is_running, gui, progress, notified, mode, packages, i, call, count,
                    disk, visited, launched, cancelAt, faults, raised, pool, tail, xml, budget, leftover >>

\* -------------------------------------------------------------- executors
\* A loop body that calls the event-log executor before the registry executor.
NextGroup_Swapped(g) ==
    CASE g = "Files" -> "EventLogs"
      [] g = "EventLogs" -> "Registries"
      [] g = "Registries" -> "Commands"
      [] g = "Commands" -> "pkg"
\* The order of the four executor calls in the body of the package loop.
NextGroup(g) ==
    CASE g = "Files" -> "Registries"
      [] g = "Registries" -> "EventLogs"
      [] g = "EventLogs" -> "Commands"
      [] g = "Commands" -> "pkg"

\* "if not self.is_running: return <count>" at the head of an executor's loop.
ItemCancelled == ~is_running

\* A handler that lets a failed copy through.
Catches_NotCopy(g, exc) == exc # "copy"
\* A handler that lets subprocess.TimeoutExpired through.
Catches_NotTimeout(g, exc) == exc # "timeout"
\* "except Exception as e" around an element of an executor: what it catches.
Catches(g, exc) == TRUE

Elems(g) == GroupOf(packages[i], g).elems

\* A progress that counts down over the packages.
LoopProgress_Down(k, n) == 90 - (k * 60) \div n
\* "progress = 30 + (i + 1) / total_packages * 60", as set with int():
\* after the k-th of n packages.
LoopProgress(k, n) == 30 + (k * 60) \div n

\* Control after group g of package i: the next group, or the end of the
\* loop body (the progress update) and the next package.
Advance(g) ==
    /\ pc' = NextGroup(g)
    /\ j' = 0
    /\ count' = 0
    /\ IF NextGroup(g) = "pkg"
       THEN /\ progress' = LoopProgress(i, Len(packages))
            /\ i' = i + 1
       ELSE UNCHANGED << progress, i >>

\* find_child and the call of the executor: no group element, no call;
\* otherwise the executor lists its elements.
ExecutorEnter(g) ==
    /\ j = 0
    /\ IF GroupOf(packages[i], g).present
       THEN /\ log' = Append(log, Ev("processing", g, 0, <<>>, Len(Elems(g))))
            /\ j' = 1
            /\ count' = 0
            /\ UNCHANGED << pc, progress, i >>
       ELSE /\ Advance(g)
            /\ UNCHANGED log
    /\ UNCHANGED << is_running, gui, status, notified, mode, packages, call, disk, terminal,
                    visited, launched, cancelAt, faults, raised, pool, said, tail, xml, budget, leftover >>

\* The executor returns its count, at the end of its loop or because the
\* flag is cleared; the caller logs a count that is not zero.
ExecutorReturn(g) ==
    /\ j >= 1
    /\ call = 0
    /\ j > Len(Elems(g)) \/ ItemCancelled
    /\ log' = IF count > 0 THEN Append(log, Ev("collected", g, 0, <<>>, count)) ELSE log
    /\ Advance(g)
    /\ UNCHANGED << is_running, gui, status, notified, mode, packages, call, disk, terminal,
                    visited, launched, cancelAt, faults, raised, pool, said, tail, xml, budget, leftover >>

\* The head of an executor's loop: the flag is read and the body is entered
\* for element j.
ItemStarts(g) ==
    /\ j >= 1
    /\ j <= Len(Elems(g))
    /\ call = 0
    /\ ~ItemCancelled
    /\ visited' = visited \cup {<<i, g, j>>}

\* "continue": on to the next element, nothing else changes.
Continue ==
    /\ j' = j + 1
    /\ raised' = "none"
    /\ UNCHANGED << call, log, count, staging, tempFiles, faults, pc, terminal, launched >>

\* A call of subprocess.run for element j of group g, and how it ended.
Run(g, result) == [pkg |-> i, grp |-> g, item |-> j, result |-> result]

\* An exception in the body of the loop for element j of group g: caught and
\* logged, the loop goes on; not caught, it ends the run.
Throw(g, exc, lg) ==
    /\ faults' = faults + 1
    /\ raised' = exc
    /\ call' = 0
    /\ IF Catches(g, exc)
       THEN /\ log' = Append(lg, Ev("error", g, j, <<exc>>, 0))
            /\ j' = j + 1
            /\ UNCHANGED << pc, terminal >>
       ELSE /\ Raise
            /\ log' = lg
            /\ UNCHANGED j

DestDir(g, team) == Join(<< packages[i].id, GroupDir(g), team >>)

\* Paths of a File or EventLog element: the variables expanded and, for
\* files, the quotes dropped.
ResolvePath(g, text) ==
    IF g = "Files" THEN Remove(ExpandVars(text), "\"") ELSE ExpandVars(text)
\* The matched files of a path: none unless the path itself exists; then the
\* glob expansion of a path with a '*', the path itself otherwise.
Matched(path) ==
    IF Exists(path) THEN (IF HasStar(path) THEN Glob(path) ELSE <<path>>) ELSE <<>>

\* One File or EventLog element (the two executors share this body).  The
\* flag is read once, at the head; then the path is resolved and the regular
\* files among the matches are taken one after the other: os.makedirs makes
\* the directory (the first time), then the worker waits in shutil.copy2.  A
\* copy returns, or raises having written nothing, or raises having written
\* the destination (the source vanishes before its times are copied); an
\* exception ends the element.
CopyItem(g) ==
    LET el == Elems(g)[j]
        path == ResolvePath(g, el.text)
        team == Get(el.team, General)
        regs == SelectSeq(Matched(path), IsFile)
        dest == [dir |-> DestDir(g, team), name |-> HOST \o <<"_">> \o regs[call]]
    IN  /\ \/ /\ ItemStarts(g)
              /\ IF el.text = <<>> \/ regs = <<>>
                 THEN Continue
                 ELSE /\ call' = 1
                      /\ raised' = "none"
                      /\ UNCHANGED << j, log, count, staging, tempFiles, faults, pc,
                                      terminal, launched >>
           \/ /\ j >= 1
              /\ call >= 1
              /\ dest.dir \notin staging.dirs
              /\ staging' = [staging EXCEPT !.dirs = @ \cup Ancestors(dest.dir)]
              /\ UNCHANGED << j, call, log, count, tempFiles, faults, raised, pc,
                              terminal, visited, launched >>
           \/ /\ j >= 1
              /\ call >= 1
              /\ dest.dir \in staging.dirs
              /\ \E r \in {"copied", "nothing", "written"} :
                   /\ r # "copied" => faults < MaxFaults
                   /\ staging' = [staging EXCEPT
                                    !.files = IF r = "nothing" THEN @ ELSE @ \cup {dest}]
                   /\ IF r = "copied"
                      THEN /\ count' = count + 1
                           /\ log' = Append(log, Ev("ok", g, j, regs[call], 0))
                           /\ IF call < Len(regs)
                              THEN call' = call + 1 /\ UNCHANGED j
                              ELSE call' = 0 /\ j' = j + 1
                           /\ UNCHANGED << faults, raised, pc, terminal >>
                      ELSE /\ Throw(g, "copy", log)
                           /\ UNCHANGED count
              /\ UNCHANGED << visited, tempFiles, launched >>
        /\ UNCHANGED << is_running, gui, status, progress, notified, mode, packages, i,
                        archives, now, cancelAt, pool, said, tail, xml, budget, leftover >>

\* _collect_files, called for the Files element of package i.
collect_files ==
    /\ pc = "Files"
    /\ \/ ExecutorEnter("Files")
       \/ CopyItem("Files")
       \/ ExecutorReturn("Files")

\* _collect_eventlogs, called for the EventLogs element of package i.
collect_eventlogs ==
    /\ pc = "EventLogs"
    /\ \/ ExecutorEnter("EventLogs")
       \/ CopyItem("EventLogs")
       \/ ExecutorReturn("EventLogs")

\* "if result.returncode == 0"
ReturnCodeZero(r) == r = "zero"

\* One Registry element.  The flag is read at the head and the directory is
\* made; then the worker is in subprocess.run, without a time limit: "reg
\* export" exits 0 having written the file, or exits with another status, or
\* exits 0 having written the file and subprocess.run raises all the same
\* (its output cannot be decoded as text), or cannot be started.
RegistryItem ==
    LET g == "Registries"
        el == Elems(g)[j]
        reg_path == RemovePair(el.text, "\\", "*")
        team == Get(el.team, General)
        output_file == Get(el.out, Replace(reg_path, "\\", "_"))
        dest == [dir |-> DestDir(g, team),
                 name |-> HOST \o <<"_">> \o output_file \o <<".txt">>]
    IN  /\ \/ /\ ItemStarts(g)
              /\ IF el.text = <<>>
                 THEN Continue
                 ELSE /\ staging' = [staging EXCEPT !.dirs = @ \cup Ancestors(dest.dir)]
                      /\ call' = 1
                      /\ raised' = "none"
                      /\ UNCHANGED << j, log, count, tempFiles, faults, pc, terminal,
                                      launched >>
           \/ /\ j >= 1
              /\ call = 1
              /\ \E r \in {"zero", "nonzero", "undecoded", "oserror"} :
                   /\ r # "zero" => faults < MaxFaults
                   /\ launched' = launched \cup {Run(g, r)}
                   /\ staging' = [staging EXCEPT
                                    !.files = IF r \in {"zero", "undecoded"}
                                              THEN @ \cup {dest} ELSE @]
                   /\ IF r \in {"undecoded", "oserror"}
                      THEN /\ Throw(g, IF r = "oserror" THEN "launch" ELSE "decode", log)
                           /\ UNCHANGED count
                      ELSE /\ IF ReturnCodeZero(r)
                              THEN /\ count' = count + 1
                                   /\ log' = Append(log, Ev("ok", g, j, reg_path, 0))
                              ELSE /\ log' = Append(log, Ev("error", g, j, <<"exit">>, 0))
                                   /\ UNCHANGED count
                           /\ faults' = IF r = "zero" THEN faults ELSE faults + 1
                           /\ j' = j + 1
                           /\ call' = 0
                           /\ UNCHANGED << raised, pc, terminal >>
              /\ UNCHANGED << visited, tempFiles >>
        /\ UNCHANGED << is_running, gui, status, progress, notified, mode, packages, i,
                        archives, now, cancelAt, pool, said, tail, xml, budget, leftover >>

\* _collect_registry, called for the Registries element of package i.
collect_registry ==
    /\ pc = "Registries"
    /\ \/ ExecutorEnter("Registries")
       \/ RegistryItem
       \/ ExecutorReturn("Registries")

\* A check for another marker than the one the manifest uses.
IsSkip_OtherWord(output_file) == output_file = <<"skip">>
\* 'if output_file == "NA": continue'
IsSkip(output_file) == output_file = <<"NA">>

\* The extension of the temporary script of a command type, "" for a type
\* that is neither PS nor CMD.
ScriptExt(cmd_type) ==
    IF Upper(cmd_type) = <<"PS">> THEN "ps1"
    ELSE IF Upper(cmd_type) = <<"CMD">> THEN "cmd" ELSE ""

\* The temporary script after the process was started with outcome r:
\* os.remove is reached only when subprocess.run returns, and its own
\* failure is ignored.
ScriptLeft(r) == r \in {"launch", "timeout", "decode", "remove_fail"}

\* How subprocess.run ends for outcome r of a command.
Ended(r) ==
    CASE r = "launch" -> "oserror"
      [] r = "timeout" -> "timeout"
      [] r = "decode" -> "undecoded"
      [] OTHER -> "returned"

\* The characters of a command the "Collected command output" line shows.
LogWidth == 50
\* text[:n] of a text of tokens: the tokens that fit, and the part that fits
\* of the token running over.
RECURSIVE Take(_, _)
Take(s, n) ==
    IF s = <<>> \/ n <= 0 THEN <<>>
    ELSE IF Len(Head(s)) <= n
         THEN <<Head(s)>> \o Take(Tail(s), n - Len(Head(s)))
         ELSE <<SubSeq(Head(s), 1, n)>>

\* One Command element of type PS or CMD.  The flag is read at the head and
\* the script is written; then the worker is in subprocess.run (at most
\* 120 s) with the script on disk.  The process cannot be started, or it
\* ends (whatever its exit status), or exceeds the timeout, or ends with an
\* output subprocess.run cannot decode, or the script cannot be removed
\* afterwards, or the output file cannot be opened, or it is opened (and so
\* created, empty) and cannot be written.
CommandItem ==
    LET g == "Commands"
        el == Elems(g)[j]
        cmd_type == Get(el.type, <<"PS">>)
        team == Get(el.team, General)
        output_file == Get(el.out, <<"output">>)
        dest == [dir |-> DestDir(g, team),
                 name |-> HOST \o <<"_">> \o output_file \o <<".txt">>]
        script == [n |-> count, ext |-> ScriptExt(cmd_type)]
    IN  /\ \/ /\ ItemStarts(g)
              /\ IF el.text = <<>> \/ IsSkip(output_file)
                 THEN Continue
                 ELSE IF ScriptExt(cmd_type) = ""
                 THEN /\ staging' = [staging EXCEPT !.dirs = @ \cup Ancestors(dest.dir)]
                      /\ j' = j + 1
                      /\ raised' = "none"
                      /\ UNCHANGED << call, log, count, tempFiles, faults, pc, terminal, launched >>
                 ELSE /\ staging' = [staging EXCEPT !.dirs = @ \cup Ancestors(dest.dir)]
                      /\ tempFiles' = tempFiles \cup {script}
                      /\ call' = 1
                      /\ raised' = "none"
                      /\ UNCHANGED << j, log, count, faults, pc, terminal, launched >>
           \/ /\ j >= 1
              /\ call = 1
              /\ \E r \in {"ok", "launch", "timeout", "decode", "remove_fail", "open",
                            "write"} :
                   /\ r # "ok" => faults < MaxFaults
                   /\ launched' = launched \cup {Run(g, Ended(r))}
                   /\ tempFiles' = IF ScriptLeft(r) THEN tempFiles ELSE tempFiles \ {script}
                   /\ staging' = [staging EXCEPT
                                    !.files = IF r \in {"ok", "remove_fail", "write"}
                                              THEN @ \cup {dest} ELSE @]
                   /\ IF r \in {"ok", "remove_fail"}
                      THEN /\ count' = count + 1
                           /\ log' = Append(log, Ev("ok", g, j, Take(el.text, LogWidth), 0))
                           /\ j' = j + 1
                           /\ call' = 0
                           /\ faults' = IF r = "ok" THEN faults ELSE faults + 1
                           /\ UNCHANGED << raised, pc, terminal >>
                      ELSE /\ Throw(g, r, log)
                           /\ UNCHANGED count
              /\ UNCHANGED visited
        /\ UNCHANGED << is_running, gui, status, progress, notified, mode, packages, i,
                        archives, now, cancelAt, pool, said, tail, xml, budget, leftover >>

\* _collect_commands, called for the Commands element of package i.
collect_commands ==
    /\ pc = "Commands"
    /\ \/ ExecutorEnter("Commands")
       \/ CommandItem
       \/ ExecutorReturn("Commands")

\* ------------------------------------------------------ archive and the end
\* The archive named after the host and the UTC minute: a file of that name
\* is replaced.
WithArchive(minute, entries, complete) ==
    {a \in archives : a.minute # minute}
        \cup {[minute |-> minute, entries |-> entries, complete |-> complete]}

\* os.walk(result_dir): the staging root and every directory below it.
Walk(st) == {<<>>} \cup st.dirs
\* An archive whose entries are named by the file names alone.
ZipEntries_Flat(st) == {[dir |-> <<>>, name |-> f.name] : f \in st.files}
\* The entries _create_zip writes: for every directory of the walk, its
\* files, each under its path relative to the staging root.
ZipEntries(st) ==
    UNION {{[dir |-> root, name |-> f.name] : f \in {x \in st.files : x.dir = root}} :
           root \in Walk(st)}

\* The UTC minute _create_zip can read: the one of the clock's last reading or
\* a later one (which one matters only when an archive exists already).
ZipMinutes == IF archives = {} THEN {now} ELSE {now, now + 1}

\* Sequence a is the beginning of sequence b.
IsPrefix(a, b) == Len(a) <= Len(b) /\ SubSeq(b, 1, Len(a)) = a
\* The number of leading components two paths share.
RECURSIVE CommonLen(_, _)
CommonLen(a, b) ==
    IF a = <<>> \/ b = <<>> \/ Head(a) # Head(b) THEN 0
    ELSE 1 + CommonLen(Tail(a), Tail(b))
\* The subtree in which directory d leaves the path to directory fd.
Branch(d, fd) == SubSeq(d, 1, CommonLen(d, fd) + 1)
\* What the walk can have written when zipf.write fails on file f.  os.walk
\* goes top-down in an order of the file system's: the files of the
\* directories above f's are written, those below are not, a subtree to the
\* side is written whole or not at all, and of the files beside f any may
\* have come first.
WrittenBefore(st, f) ==
    LET others == st.files \ {f}
        Side(x) == ~IsPrefix(x.dir, f.dir) /\ ~IsPrefix(f.dir, x.dir)
    IN  {W \in SUBSET others :
           \A x \in others :
              /\ (IsPrefix(x.dir, f.dir) /\ x.dir # f.dir) => x \in W
              /\ (IsPrefix(f.dir, x.dir) /\ x.dir # f.dir) => x \notin W
              /\ Side(x) => \A y \in others :
                               (Side(y) /\ Branch(y.dir, f.dir) = Branch(x.dir, f.dir))
                                   => (y \in W <=> x \in W)}

\* _create_zip: the status line; then the name is made from the clock and
\* the archive file is opened, which creates it or empties it, or fails; then
\* the walk writes the entries and the archive is closed, or writing an entry
\* fails (the file stays, with the entries written before).
create_zip ==
    /\ \/ /\ pc = "zip"
          /\ \/ /\ update_status(<<"Creating ZIP file...">>)
                /\ UNCHANGED << archives, now, faults >>
             \/ /\ Said
                /\ \E t \in ZipMinutes :
                     /\ now' = t
                     /\ \E opened \in BOOLEAN :
                          IF opened
                          THEN /\ archives' = WithArchive(t, {}, FALSE)
                               /\ pc' = "zip_write"
                               /\ UNCHANGED terminal
                          ELSE /\ Raise
                               /\ UNCHANGED archives
                /\ UNCHANGED << status, log, faults >>
       \/ /\ pc = "zip_write"
          /\ \E r \in {"ok", "write"} :
               IF r = "ok"
               THEN /\ archives' = WithArchive(now, ZipEntries(staging), TRUE)
                    /\ pc' = "cleanup"
                    /\ UNCHANGED << terminal, faults >>
               ELSE /\ faults < MaxFaults
                    /\ faults' = faults + 1
                    /\ \E f \in staging.files : \E W \in WrittenBefore(staging, f) :
                         archives' = WithArchive(now, ZipEntries([staging EXCEPT !.files = W]),
                                                 FALSE)
                    /\ Raise
          /\ UNCHANGED << status, log, said, now >>
    /\ UNCHANGED << is_running, gui, progress, notified, mode, loopvars, staging,
                    tempFiles, visited, launched, cancelAt, raised, pool, tail, xml, budget, leftover >>

\* The end of _run_native_collection after _create_zip has returned: the
\* progress, the staging directory is removed, and the status line.
run_native_cleanup ==
    /\ \/ /\ pc = "cleanup"
          /\ progress' = 100
          /\ staging' = NoDir
          /\ pc' = "complete"
          /\ UNCHANGED << status, log, said, terminal >>
       \/ /\ pc = "complete"
          /\ \/ update_status(<<"Collection complete!">>)
             \/ /\ Said
                /\ terminal' = "Success"
                /\ pc' = "notify"
                /\ UNCHANGED << status, log >>
          /\ UNCHANGED << progress, staging >>
    /\ UNCHANGED << is_running, gui, notified, mode, loopvars, tempFiles, archives,
                    now, visited, launched, cancelAt, faults, raised, pool, tail, xml, budget, leftover >>

\* _collection_thread after the collection has returned: Open Folder is
\* enabled and "Collection Complete" is shown.
collection_complete ==
    /\ pc = "notify"
    /\ open_btn' = "normal"
    /\ notified' = "complete"
    /\ pc' = "finally"
    /\ UNCHANGED << is_running, collect_btn, cancel_btn, dialog, status, progress, log,
                    mode, loopvars, disk, terminal, visited, launched, cancelAt, faults, raised, pool, said, tail, xml, budget, leftover >>

\* _collection_thread's "except Exception": the status line, then the error
\* is shown.
collection_error ==
    /\ pc = "except"
    /\ \/ /\ update_status(<<"Error">>)
          /\ UNCHANGED notified
       \/ /\ Said
          /\ notified' = "error"
          /\ pc' = "finally"
          /\ UNCHANGED << status, log >>
    /\ UNCHANGED << is_running, gui, progress, mode, loopvars, disk, terminal,
                    visited, launched, cancelAt, faults, raised, pool, tail, xml, budget, leftover >>

\* _collection_thread's "finally", statement by statement: the flag is
\* cleared, Start is enabled, Cancel is disabled.  The last statement may be
\* left to run when the next collection has been started already.
collection_finally ==
    /\ \/ /\ pc = "finally"
          /\ is_running' = FALSE
          /\ pc' = "finally_collect"
          /\ UNCHANGED << collect_btn, cancel_btn, tail >>
       \/ /\ pc = "finally_collect"
          /\ collect_btn' = "normal"
          /\ pc' = "finally_cancel"
          /\ UNCHANGED << is_running, cancel_btn, tail >>
       \/ /\ pc = "finally_cancel"
          /\ cancel_btn' = "disabled"
          /\ pc' = "idle"
          /\ UNCHANGED << is_running, collect_btn, tail >>
       \/ /\ tail
          /\ cancel_btn' = "disabled"
          /\ tail' = FALSE
          /\ UNCHANGED << is_running, collect_btn, pc >>
    /\ UNCHANGED << open_btn, dialog, status, progress, log, notified, mode, loopvars,
                    disk, terminal, visited, launched, cancelAt, faults, raised, pool, said, xml, budget, leftover >>

Next ==
    \/ start_collection
    \/ cancel_collection
    \/ cancel_answer
    \/ collection_thread
    \/ run_microsoft_tool
    \/ run_native_collection
    \/ download_xml
    \/ parse_xml
    \/ package_loop
    \/ collect_files
    \/ collect_registry
    \/ collect_eventlogs
    \/ collect_commands
    \/ create_zip
    \/ run_native_cleanup
    \/ collection_complete
    \/ collection_error
    \/ collection_finally

\* The steps of the GUI thread (the button commands) and of the worker thread.
Host == start_collection \/ cancel_collection \/ cancel_answer
Worker ==
    \/ collection_thread
    \/ run_microsoft_tool
    \/ run_native_collection
    \/ download_xml
    \/ parse_xml
    \/ package_loop
    \/ collect_files
    \/ collect_registry
    \/ collect_eventlogs
    \/ collect_commands
    \/ create_zip
    \/ run_native_cleanup
    \/ collection_complete
    \/ collection_error
    \/ collection_finally

Spec == Init /\ [][Next]_vars

\* Several collections one after the other, over fewer package lists.
InitRuns ==
    /\ is_running = FALSE
    /\ collect_btn = "normal"
    /\ cancel_btn = "disabled"
    /\ open_btn = "disabled"
    /\ status = <<"Ready to start">>
    /\ progress = 0
    /\ log = <<>>
    /\ dialog = "none"
    /\ notified = "none"
    /\ mode = "none"
    /\ pc = "idle"
    /\ packages = <<>>
    /\ i = 0
    /\ j = 0
    /\ call = 0
    /\ count = 0
    /\ staging = NoDir
    /\ tempFiles = {}
    /\ archives = {}
    /\ now = 0
    /\ terminal = "none"
    /\ visited = {}
    /\ launched = {}
    /\ cancelAt = NotCancelled
    /\ faults = 0
    /\ raised = "none"
    /\ pool = "rerun"
    /\ xml = NoFile
    /\ budget = MaxRuns
    /\ leftover = FALSE
    /\ said = "no"
    /\ tail = FALSE
SpecRuns == InitRuns /\ [][Next]_vars

\* One collection over documents of every layout, with and without a
\* default namespace.
InitXml ==
    /\ is_running = FALSE
    /\ collect_btn = "normal"
    /\ cancel_btn = "disabled"
    /\ open_btn = "disabled"
    /\ status = <<"Ready to start">>
    /\ progress = 0
    /\ log = <<>>
    /\ dialog = "none"
    /\ notified = "none"
    /\ mode = "none"
    /\ pc = "idle"
    /\ packages = <<>>
    /\ i = 0
    /\ j = 0
    /\ call = 0
    /\ count = 0
    /\ staging = NoDir
    /\ tempFiles = {}
    /\ archives = {}
    /\ now = 0
    /\ terminal = "none"
    /\ visited = {}
    /\ launched = {}
    /\ cancelAt = NotCancelled
    /\ faults = 0
    /\ raised = "none"
    /\ pool = "xml"
    /\ xml = NoFile
    /\ budget = 1
    /\ leftover = FALSE
    /\ said = "no"
    /\ tail = FALSE
SpecXml == InitXml /\ [][Next]_vars

\* Several collections with worker threads that are scheduled as long as
\* they have a step to take: every call they make (the message box at the
\* end of a run included) returns, raises or times out.
LiveRuns == InitRuns /\ [][Next]_vars /\ WF_vars(Worker)

\* ------------------------------------------------------------------ claims
Native == mode = "native"
Groups == {"Files", "Registries", "EventLogs", "Commands"}
\* The run of the collection function is over (it returned or raised).
RunOver == terminal # "none"
\* _create_zip has been called in this run.
ZipCalled == \E k \in 1..Len(log) : log[k] = StatusEv(<<"Creating ZIP file...">>)
\* The events of kind `kind` logged for element `it` of group g of package p.
EventsOf(kind, p, g, it) ==
    {k \in 1..Len(log) : /\ log[k].ev = kind
                         /\ log[k].pkg = p
                         /\ log[k].grp = g
                         /\ log[k].item = it}
\* The flag was cleared while the worker was in the package loop.
CancelledInLoop ==
    \/ cancelAt.pc \in Groups \cup {"pkg_say"}
    \/ cancelAt.pc = "pkg" /\ cancelAt.i <= Len(packages)

\* C1: once a native run is over, however it ended (success, cancellation,
\* download or parse failure, archive failure), the staging directory does
\* not exist.
C1_StagingRemovedAtEnd == (Native /\ RunOver) => ~staging.exists

\* C2: if the flag is cleared while the package loop is running, the run ends
\* as cancelled: _create_zip is not called and no archive is created.
C2_CancelInLoopSkipsArchive ==
    (Native /\ CancelledInLoop)
        => /\ ~ZipCalled
           /\ archives = {}
           /\ RunOver => terminal = "Cancelled"

\* The "Processing package" lines, in order.
PackageLines ==
    SelectSeq(log, LAMBDA e : e.ev = "status" /\ e.arg # <<>>
                              /\ e.arg[1] = "Processing package: ")
\* C3: if the flag is cleared after package k (1 <= k < n) is complete and
\* before the body of the loop is entered for package k+1 (before the loop
\* reads the flag, or between that and the status line of the package), no
\* action of a package after k is run: no element of it is visited, no
\* process is started for it, nothing is collected, counted or failed for
\* it, and what is staged comes from packages 1..k.  When the flag is
\* cleared before the loop reads it, package k+1 is not even announced, no
\* executor is entered for it, and the run ends as cancelled.
C3_NoLaterPackageAfterCancel ==
    (Native /\ cancelAt.pc \in {"pkg", "pkg_say"}
            /\ cancelAt.i >= 2 /\ cancelAt.i <= Len(packages))
        => /\ \A v \in visited : v[1] < cancelAt.i
           /\ \A l \in launched : l.pkg < cancelAt.i
           /\ \A k \in 1..Len(log) :
                 log[k].ev \in {"ok", "error", "collected"} => log[k].pkg < cancelAt.i
           /\ \A f \in staging.files :
                 \E p \in 1..(cancelAt.i - 1) : f.dir[1] = packages[p].id
           /\ cancelAt.pc = "pkg"
                 => /\ \A k \in 1..Len(log) : log[k].pkg < cancelAt.i
                    /\ Len(PackageLines) < cancelAt.i
                    /\ pc \notin Groups \cup {"pkg_say", "zip", "zip_write", "cleanup", "complete"}
                    /\ RunOver => terminal = "Cancelled"
\* C3's case: cancelled between package 1 and package 2, the run is over and
\* package 1 has collected something.
C3_Witness ==
    /\ Native
    /\ cancelAt.pc = "pkg" /\ cancelAt.i = 2 /\ Len(packages) >= 2
    /\ terminal = "Cancelled"
    /\ \E k \in 1..Len(log) : log[k].ev = "ok" /\ log[k].pkg = 1
    /\ staging.files # {}

Rank(g) ==
    CASE g = "Files" -> 1
      [] g = "Registries" -> 2
      [] g = "EventLogs" -> 3
      [] g = "Commands" -> 4
\* The lines an executor logs (its entry, its elements, its count), in order.
ExecLines == SelectSeq(log, LAMBDA e : e.ev \in {"processing", "ok", "error", "collected"})
\* The lines about elements, in order.
ItemLines == SelectSeq(log, LAMBDA e : e.ev \in {"ok", "error"})
\* Line a is about a group that is run no later than the group of line b.
GroupBefore(a, b) ==
    \/ a.pkg < b.pkg
    \/ a.pkg = b.pkg /\ Rank(a.grp) <= Rank(b.grp)

\* C4: packages are processed in the order of the parsed manifest; within a
\* package the executors run in the order Files, Registries, EventLogs,
\* Commands, each over its elements in order; nothing of a later group or
\* package is logged before anything of an earlier one.
C4_ManifestAndGroupOrder ==
    LET pl == PackageLines
        el == ExecLines
        il == ItemLines
    IN  Native =>
        /\ Len(pl) <= Len(packages)
        /\ \A m \in 1..Len(pl) : pl[m].arg = <<"Processing package: ">> \o packages[m].id
        /\ \A k \in 1..(Len(el) - 1) : GroupBefore(el[k], el[k + 1])
        /\ \A k \in 1..(Len(il) - 1) :
              (il[k].pkg = il[k + 1].pkg /\ il[k].grp = il[k + 1].grp)
                  => il[k].item <= il[k + 1].item
\* C4's case: a run over two packages in which a registry key, an event log
\* and a command of the second package were collected.
C4_Witness ==
    /\ Native
    /\ terminal = "Success"
    /\ Len(packages) = 2
    /\ EventsOf("ok", 1, "Files", 1) # {}
    /\ EventsOf("ok", 2, "Registries", 1) # {}
    /\ EventsOf("ok", 2, "EventLogs", 1) # {}
    /\ EventsOf("ok", 2, "Commands", 3) # {}

\* Every element of every action group of the manifest.
Declared ==
    UNION {{<<p, g, k>> : k \in 1..Len(GroupOf(packages[p], g).elems)} :
           p \in 1..Len(packages), g \in Groups}
LoopPlaces == {"pkg", "pkg_say", "Files", "Registries", "EventLogs", "Commands"}

\* C5: the failure of an action never ends the run: in a run that is not
\* cancelled, once the manifest is parsed, the worker is in the package loop
\* or has called _create_zip, and once the loop is left every element of
\* every group of every package has been visited.
C5_FailureDoesNotAbort ==
    (Native /\ progress >= 30 /\ cancelAt = NotCancelled /\ pc \notin LoopPlaces)
        => /\ pc = "zip" \/ ZipCalled
           /\ Declared \subseteq visited
\* C5's case: a copy, an export or a command failed in the first package and
\* the run went on to the archive through later elements.
C5_Witness ==
    /\ Native
    /\ cancelAt = NotCancelled
    /\ terminal = "Success"
    /\ \E k \in 1..Len(log) : /\ log[k].ev = "error"
                              /\ log[k].pkg = 1
                              /\ \E l \in (k + 1)..Len(log) : log[l].ev = "ok"
    /\ Len(packages) = 2
    /\ Declared \subseteq visited

ElementAt(p, g, k) == GroupOf(packages[p], g).elems[k]
\* The regular files the code matches for a File element.
RegularMatches(p, k) ==
    SelectSeq(Matched(ResolvePath("Files", ElementAt(p, "Files", k).text)), IsFile)
\* The candidates of a path as the resolver is specified: the glob expansion
\* of a path with a '*', the path itself otherwise; and the regular files
\* among them.
Candidates(path) == IF HasStar(path) THEN Glob(path) ELSE <<path>>
RegularCandidates(p, k) ==
    SelectSeq(Candidates(ResolvePath("Files", ElementAt(p, "Files", k).text)), IsFile)

\* C6: when the copy of one matched file of a File element fails, the failure
\* is logged and every other matched file of that element is still copied
\* and counted.
C6_OtherMatchesStillCopied ==
    Native =>
        \A k \in 1..Len(log) :
            (log[k].ev = "error" /\ log[k].grp = "Files" /\ log[k].arg = <<"copy">>)
                => Cardinality(EventsOf("ok", log[k].pkg, "Files", log[k].item))
                       = Len(RegularMatches(log[k].pkg, log[k].item)) - 1

\* C7: for every File element the executor has passed, the number of files
\* collected is the number of its candidates that are regular files, and no
\* error is logged for the candidates that are missing or directories.
C7_CountEqualsRegularCandidates ==
    Native =>
        \A v \in visited :
            (/\ v[2] = "Files"
             /\ ~(pc = "Files" /\ i = v[1] /\ j = v[3])
             /\ ElementAt(v[1], "Files", v[3]).text # <<>>
             /\ \A k \in EventsOf("error", v[1], "Files", v[3]) : log[k].arg # <<"copy">>)
                => /\ Cardinality(EventsOf("ok", v[1], "Files", v[3]))
                          = Len(RegularCandidates(v[1], v[3]))
                   /\ EventsOf("error", v[1], "Files", v[3]) = {}

\* C8: a command whose process exceeds the timeout logs exactly one error for
\* that command, is not counted, writes no file into the staging tree, and
\* the executor goes on with the next command.
C8_TimeoutRecordedRunContinues ==
    [][(raised' = "timeout" /\ raised # "timeout")
          => /\ pc = "Commands"
             /\ log' = Append(log, Ev("error", "Commands", j, <<"timeout">>, 0))
             /\ count' = count
             /\ staging'.files = staging.files
             /\ pc' = "Commands"
             /\ i' = i
             /\ j' = j + 1
             /\ terminal' = terminal]_vars
\* C8's case: the first command of the first package timed out, a later
\* command was collected and the run ended with the archive.
C8_Witness ==
    /\ Native
    /\ terminal = "Success"
    /\ \E k \in EventsOf("error", 1, "Commands", 1) :
          /\ log[k].arg = <<"timeout">>
          /\ \E l \in EventsOf("ok", 1, "Commands", 3) : l > k
    /\ EventsOf("ok", 1, "Commands", 1) = {}

\* C9: no temporary script is left once the executor has moved on from the
\* command it was written for, whatever the outcome of the command: a script
\* is on disk only while the worker waits for its process.
C9_ScriptsDeleted == (Native /\ ~(pc = "Commands" /\ call = 1)) => tempFiles = {}

\* The worker passes a Command element marked with the skip sentinel.
SkipStep ==
    /\ pc = "Commands"
    /\ j >= 1
    /\ j <= Len(Elems("Commands"))
    /\ Elems("Commands")[j].out = <<"NA">>
    /\ j' = j + 1
\* C10: a command marked with the skip sentinel writes nothing into the
\* staging tree and does not raise the count of collected commands.
C10_SkipWritesNothing ==
    [][SkipStep => /\ staging' = staging
                   /\ count' = count
                   /\ tempFiles' = tempFiles
                   /\ log' = log]_vars
\* C10's case: a marked command was passed in a run that collected other
\* commands and archived them, and nothing named after the marker is archived.
C10_Witness ==
    /\ Native
    /\ terminal = "Success"
    /\ \E v \in visited : /\ v[2] = "Commands"
                          /\ ElementAt(v[1], "Commands", v[3]).out = <<"NA">>
    /\ \E a \in archives :
          /\ \E f \in a.entries : f.dir[2] = <<"Commands">>
          /\ \A f \in a.entries : f.name # HOST \o <<"_", "NA", ".txt">>

\* C11: a command marked with the skip sentinel is still run: once the
\* executor has passed it, subprocess.run has been called for it.
C11_SkipStillLaunched ==
    Native =>
        \A v \in visited :
            (/\ v[2] = "Commands"
             /\ ElementAt(v[1], "Commands", v[3]).out = <<"NA">>
             /\ ElementAt(v[1], "Commands", v[3]).text # <<>>)
                => \E l \in launched :
                       l.pkg = v[1] /\ l.grp = "Commands" /\ l.item = v[3]

\* The exports of "reg export" run for package p.
RegistryRuns(p) == {l \in launched : l.pkg = p /\ l.grp = "Registries"}
\* The registry executor has returned for package p.
RegistryDone(p) == i > p \/ pc \in {"EventLogs", "Commands"}
\* The export process of run l exited with status 0 (whether or not
\* subprocess.run then returned).
ExitedZero(l) == l.result \in {"zero", "undecoded"}
ParseCalled ==
    /\ pc # "parse"
    /\ \E k \in 1..Len(log) : log[k] = StatusEv(<<"Parsing Intune.XML...">>)
\* The names of the action elements.
ActionNames == {<<"File">>, <<"Registry">>, <<"EventLog">>, <<"Command">>}
\* The document holds no action element anywhere.
NoActionElement ==
    LET all == Iter(xml.root)
    IN  \A k \in 1..Len(all) : all[k].name \notin ActionNames

\* C13: for a document with at least one package and no action element, a
\* run that is not cancelled collects nothing in any package, logs no error,
\* and goes on to the archive; when the archive is written it has no entry
\* and the run ends as a success.
C13_NoActionsEmptyArchive ==
    (/\ Native
     /\ ParseCalled
     /\ xml.wellformed
     /\ NoActionElement
     /\ Len(packages) >= 1
     /\ cancelAt = NotCancelled)
        => /\ \A k \in 1..Len(log) :
                 /\ log[k].ev \notin {"ok", "error", "collected"}
                 /\ log[k].ev = "processing" => log[k].n = 0
           /\ visited = {}
           /\ launched = {}
           /\ staging.files = {}
           /\ terminal # "Cancelled"
           /\ terminal = "Failed" => ZipCalled
           /\ pc \notin LoopPlaces => (pc = "zip" \/ ZipCalled)
           /\ terminal = "Success"
                 => \E a \in archives : a.minute = now /\ a.complete /\ a.entries = {}
\* C13's case: the run over two packages without actions, one of them with
\* empty groups, has ended with the archive.
C13_Witness ==
    /\ Native
    /\ xml.wellformed
    /\ NoActionElement
    /\ Len(packages) = 2
    /\ cancelAt = NotCancelled
    /\ terminal = "Success"
    /\ \E k \in 1..Len(log) : log[k].ev = "processing" /\ log[k].n = 0
    /\ \E a \in archives : a.complete /\ a.entries = {}

\* The document holds no element whose tag ends with 'Package'.
NoPackageElement ==
    LET all == Iter(xml.root)
    IN  \A k \in 1..Len(all) : ~EndsWith(all[k].name, "Package")

\* C14: for a well-formed document without a Package element parse_xml
\* returns the empty list without raising; the run executes no action and
\* goes on to the archive, and ends as a success when the archive is written.
C14_NoPackagesStillCompletes ==
    (Native /\ ParseCalled /\ xml.wellformed /\ NoPackageElement)
        => /\ packages = <<>>
           /\ progress >= 30
           /\ visited = {}
           /\ launched = {}
           /\ ExecLines = <<>>
           /\ pc \in {"pkg", "zip", "zip_write", "cleanup", "complete", "notify", "except",
                     "finally", "finally_collect", "finally_cancel", "idle"}
           /\ terminal # "Cancelled"
           /\ terminal = "Failed" => ZipCalled
           /\ terminal = "Success"
                 => /\ progress = 100
                    /\ \E a \in archives : a.minute = now /\ a.complete /\ a.entries = {}
\* C14's case: a document with a root and a foreign element only was
\* parsed and the run has ended with an empty archive.
C14_Witness ==
    /\ Native
    /\ ParseCalled
    /\ xml.wellformed
    /\ NoPackageElement
    /\ xml.root.kids # <<>>
    /\ terminal = "Success"
    /\ notified = "complete"
    /\ \E a \in archives : a.complete /\ a.entries = {}

\* The document that differs from doc by the default namespace on the root
\* only: declared where doc has none, removed where doc has one.
Twin(doc) == IF doc.root.uri = "" THEN InNamespace(doc, URI) ELSE InNamespace(doc, "")

\* C15: a document and the document that differs from it only by a default
\* namespace declared on the root yield the same packages in the same order,
\* with the same ids and, per package, the same file, registry, event-log
\* and command actions in the same order.
C15_NamespaceMakesNoDifference ==
    (Native /\ ParseCalled /\ xml.wellformed)
        => /\ ManifestOf(Twin(xml)) = ManifestOf(xml)
           /\ packages = ManifestOf(Twin(xml))
\* C15's case: a document with a default namespace, its packages below an
\* intermediate element and a File below a folder element, was parsed, and
\* the nested file and a command were collected.
C15_Witness ==
    /\ Native
    /\ xml.wellformed
    /\ xml.root.uri = URI
    /\ Len(packages) = 2
    /\ packages[1].id = <<"N1">>
    /\ EventsOf("ok", 1, "Files", 2) # {}
    /\ EventsOf("ok", 1, "Commands", 1) # {}
    /\ EventsOf("ok", 2, "Registries", 1) # {}
    /\ terminal = "Success"

\* C16: from one step of a run to the next the progress never goes down
\* and never exceeds 100, and in a native run it is 100 only once
\* _create_zip has written the archive.
C16_ProgressMonotone ==
    [][pc # "idle"
          => /\ progress' >= progress
             /\ progress' <= 100
             /\ (mode' = "native" /\ progress' = 100)
                   => /\ ZipCalled'
                      /\ \E a \in archives' : a.minute = now' /\ a.complete]_vars
\* C16's case: a run over two packages has gone through 60 and 90 to 100.
C16_Witness ==
    /\ Native
    /\ Len(packages) = 2
    /\ progress = 100
    /\ terminal = "Success"
    /\ visited # {}

\* C17: when a file of the archive's name (same host, same UTC minute)
\* exists already, _create_zip fails and leaves the existing archive as it is.
C17_ExistingArchiveKept ==
    [][(pc = "zip" /\ pc' # "zip" /\ \E a \in archives : a.minute = now')
          => /\ archives' = archives
             /\ terminal' = "Failed"]_vars

\* C18: once _create_zip has returned, the archive of this run holds one
\* entry for every file of the staging tree, under the file's path relative
\* to the staging root, and nothing else: no entry for a directory.
C18_ArchiveEqualsStagedFiles ==
    (Native /\ pc = "cleanup")
        => /\ Cardinality({a \in archives : a.minute = now}) = 1
           /\ \A a \in archives :
                 a.minute = now
                     => /\ a.complete
                        /\ a.entries = staging.files
                        /\ \A e \in a.entries : Join(<<e.dir, e.name>>) \notin staging.dirs
\* C18's case: files of several directories and an empty directory were
\* staged and _create_zip has returned.
C18_Witness ==
    /\ Native
    /\ pc = "cleanup"
    /\ Cardinality(staging.files) >= 3
    /\ Cardinality({f.dir : f \in staging.files}) >= 3
    /\ \E d \in staging.dirs :
          \A f \in staging.files : Len(f.dir) < Len(d) \/ SubSeq(f.dir, 1, Len(d)) # d
    /\ \E a \in archives : a.entries = staging.files

\* C19: when _create_zip raises after it has opened the archive file, no
\* archive of this run is left on disk.
C19_NoArchiveAfterFailedZip ==
    (Native /\ ZipCalled /\ terminal = "Failed")
        => \A a \in archives : a.minute # now

\* C20: when the document is not well-formed, parse_xml raises and the run
\* ends as failed: no element has been visited, no process started, nothing
\* staged, and _create_zip has not been called, so that no archive exists.
C20_MalformedManifestAborts ==
    (Native /\ ParseCalled /\ ~xml.wellformed)
        => /\ terminal = "Failed"
           /\ pc \in {"except", "finally", "finally_collect", "finally_cancel", "idle"}
           /\ progress = 25
           /\ visited = {}
           /\ launched = {}
           /\ ExecLines = <<>>
           /\ staging.files = {}
           /\ ~ZipCalled
           /\ archives = {}
\* C20's case: a malformed document was downloaded, the run has ended and
\* the error was shown.
C20_Witness ==
    /\ Native
    /\ ParseCalled
    /\ xml = Malformed
    /\ terminal = "Failed"
    /\ notified = "error"
    /\ pc = "idle"

\* C21: the flag is the only state that crosses the threads: the worker
\* thread writes the status, the log, the progress and the buttons, so while
\* a worker exists the GUI thread writes none of them, and the worker thread
\* never writes the flag.
C21_OnlyFlagCrossesThreads ==
    [][/\ (Host /\ pc # "idle")
             => UNCHANGED << status, log, progress, collect_btn, cancel_btn, open_btn >>
       /\ Worker => is_running' = is_running]_vars

\* C22: once the flag is cleared, the call the worker waits in may return
\* but in no step of the worker anything further is started: no element is entered, no copy, export or
\* command begins; an executor at the head of its loop returns at once, and
\* the count that is logged is the count it had reached.
C22_NoItemStartsAfterCancel ==
    [][(~is_running /\ pc \in Groups /\ << pc, i, j, call, count >>' # << pc, i, j, call, count >>)
          => /\ visited' = visited
             /\ call' \in {call, 0}
             /\ (j >= 1 /\ call = 0)
                   => /\ pc' = NextGroup(pc)
                      /\ j' = 0
                      /\ log' = IF count > 0
                                THEN Append(log, Ev("collected", pc, 0, <<>>, count))
                                ELSE log]_vars

\* The archive _create_zip has written in this run.
ThisArchive == {a \in archives : a.minute = now}

\* C23: every native run starts from an empty staging directory, whatever
\* the run before has left, and every entry of the archive it writes is a
\* file of an element that was processed in this run.
C23_ArchiveHoldsOnlyThisRun ==
    /\ (Native /\ pc \in {"download", "parse"})
          => staging.exists /\ staging.files = {} /\ staging.dirs = {}
    /\ (Native /\ pc = "cleanup")
          => \A a \in ThisArchive :
                \A e \in a.entries :
                   \E v \in visited :
                      /\ e.dir[1] = packages[v[1]].id
                      /\ e.dir[2] = GroupDir(v[2])
\* C23's case: a run that found files of the run before in the staging
\* directory has collected nothing and written an archive without entries.
C23_Witness ==
    /\ Native
    /\ pc = "cleanup"
    /\ leftover
    /\ packages = <<>>
    /\ ThisArchive # {}
    /\ \A a \in ThisArchive : a.entries = {}

\* C24: every file of the staging tree is in a team folder below the folder
\* of its action kind, and the team folder of an element whose Team
\* attribute is absent or empty is "General".
C24_TeamFolderAlways ==
    Native =>
        /\ \A f \in staging.files : Len(f.dir) = 3
        /\ \A v \in visited :
              LET el == ElementAt(v[1], v[2], v[3])
              IN  (el.team \in {NoAttr, <<>>} /\ EventsOf("ok", v[1], v[2], v[3]) # {})
                     => \E f \in staging.files :
                           f.dir = <<packages[v[1]].id, GroupDir(v[2]), General>>

\* C25: a run that ended because the flag was cleared is not reported as a
\* completed collection: "Collection Complete" is not shown and Open Folder
\* is not enabled.
C25_CancelledNotReportedComplete ==
    terminal = "Cancelled" => (notified # "complete" /\ open_btn # "normal")

\* C26: the lookups by the ending of the tag select only elements whose
\* local name is the name asked for: every package that is found is named
\* 'Package', and every group found in it has the name of the group.
C26_FallbackMatchesExactName ==
    (Native /\ ParseCalled /\ xml.wellformed)
        => LET pkgs == FindPackages(xml.root)
           IN  /\ Len(packages) = Len(pkgs)
               /\ \A k \in 1..Len(pkgs) :
                     /\ pkgs[k].name = <<"Package">>
                     /\ \A g \in Groups :
                           LET child == find_child(pkgs[k], g, NsMap(pkgs))
                           IN  child # <<>> => child[1].name = <<g>>

\* C29: when the answer to the cancel dialog comes after the run has ended
\* as a success, it leaves the status as it is.
C29_LateConfirmKeepsStatus ==
    [][(cancel_answer /\ Native /\ terminal = "Success") => status' = status]_vars

\* C27: while a worker exists (until its "finally" has run to the end) the
\* Start button is disabled, and a worker is started only when there is none.
C27_OneWorkerAtATime ==
    [][/\ pc # "idle" => collect_btn = "disabled"
       /\ start_collection => (pc = "idle" /\ ~tail)]_vars

\* A worker runs the last statement of its "finally".
WorkerEnds == (pc = "finally_cancel" /\ pc' = "idle") \/ (tail /\ ~tail')
\* C28: every run that is started ends, and when it ends, however it ended,
\* the flag is cleared, Start is enabled and Cancel is disabled.
C28_RunEndsAndResets ==
    /\ (pc = "begin") ~> (pc = "idle")
    /\ tail ~> ~tail
    /\ [][WorkerEnds => (~is_running' /\ collect_btn' = "normal"
                         /\ cancel_btn' = "disabled")]_vars

====
